---- MODULE Spec2Model ----
(***************************************************************************)
(* pg-oui: the dataset builders (cmd/update_data and the runtime-update    *)
(* library build), the offset indexer, and the lookup engine (Open,        *)
(* DB.Lookup, DB.vendorByID).                                              *)
(*                                                                         *)
(* Text is a sequence of one-character strings; a file of bytes is a       *)
(* sequence of characters (vendors) or of byte values 0..255 (the index).  *)
(* Registry rows are the records encoding/csv hands to the builder; every  *)
(* field is single-line text (no CR or LF inside a field).                 *)
(***************************************************************************)
EXTENDS Integers, Sequences, FiniteSets, TLC

\* ------------------------------------------------------------------ text

LF == "\n"

Uppers == <<"A","B","C","D","E","F","G","H","I","J","K","L","M",
            "N","O","P","Q","R","S","T","U","V","W","X","Y","Z">>
Lowers == <<"a","b","c","d","e","f","g","h","i","j","k","l","m",
            "n","o","p","q","r","s","t","u","v","w","x","y","z">>
Digits == <<"0","1","2","3","4","5","6","7","8","9">>
HexDigits == <<"0","1","2","3","4","5","6","7","8","9","a","b","c","d","e","f">>

\* unicode.IsSpace on the ASCII range (strings.TrimSpace) and the regexp class \s
WhiteSpace == {" ", "\t", "\n", "\r", "\f"}

Range(s) == {s[i] : i \in DOMAIN s}

MinOf(S) == CHOOSE m \in S : \A n \in S : m <= n

LowerChar(c) ==
    IF \E i \in DOMAIN Uppers : Uppers[i] = c
    THEN Lowers[CHOOSE i \in DOMAIN Uppers : Uppers[i] = c]
    ELSE c

UpperChar(c) ==
    IF \E i \in DOMAIN Lowers : Lowers[i] = c
    THEN Uppers[CHOOSE i \in DOMAIN Lowers : Lowers[i] = c]
    ELSE c

\* strings.ToLower
ToLower(s) == [i \in 1..Len(s) |-> LowerChar(s[i])]

ToUpper(s) == [i \in 1..Len(s) |-> UpperChar(s[i])]

RECURSIVE TrimLeftSet(_, _)
TrimLeftSet(s, cut) ==
    IF s = <<>> \/ Head(s) \notin cut THEN s ELSE TrimLeftSet(Tail(s), cut)

\* bytes.TrimRight(b, cutset)
RECURSIVE TrimRight(_, _)
TrimRight(s, cut) ==
    IF s = <<>> \/ s[Len(s)] \notin cut THEN s
    ELSE TrimRight(SubSeq(s, 1, Len(s) - 1), cut)

\* strings.TrimSpace
TrimSpace(s) == TrimRight(TrimLeftSet(s, WhiteSpace), WhiteSpace)

\* strings.ReplaceAll(v, `"`, "")
StripQuotes(s) == SelectSeq(s, LAMBDA c : c # "\"")

\* a cleaner that knows the MAC separators ':' and '-' only
macCleanerColonDash(s) == SelectSeq(s, LAMBDA c : c \notin {":", "-"})

\* macCleaner = strings.NewReplacer(":", "", "-", "", ".", "", " ", "")
macCleaner(s) == SelectSeq(s, LAMBDA c : c \notin {":", "-", ".", " "})

RECURSIVE Concat(_)
Concat(ss) == IF ss = <<>> THEN <<>> ELSE Head(ss) \o Concat(Tail(ss))

\* index of the first LF in b, 0 when there is none (bytes.IndexByte, 1-based)
IndexLF(b) ==
    IF \E i \in DOMAIN b : b[i] = LF
    THEN MinOf({i \in DOMAIN b : b[i] = LF})
    ELSE 0

\* ------------------------------------------------------- name normalizer

llcRegex == {<<"l","l","c">>, <<"l","t","d">>, <<"l","i","m","i","t","e","d">>,
             <<"i","n","c">>,
             <<"i","n","c","o","r","p","o","r","a","t","e","d">>}
coRegex == {<<"c","o">>, <<"c","o","m","p","a","n","y">>, <<"c","o","r","p">>,
            <<"c","o","r","p","o","r","a","t","i","o","n">>}
gmbhRegex == {<<"g","m","b","h">>}

\* t matches (?i),?\s*(w1|w2|...)\.?$ from its first character to its end
SuffixMatch(words, t) ==
    LET t1 == IF t # <<>> /\ Head(t) = "," THEN Tail(t) ELSE t
        t2 == TrimLeftSet(t1, WhiteSpace)
        t3 == IF t2 # <<>> /\ t2[Len(t2)] = "." THEN SubSeq(t2, 1, Len(t2) - 1) ELSE t2
    IN  ToLower(t3) \in words

\* regexp.ReplaceAll(b, []byte{}): the leftmost match runs to the end of b
ReplaceAll(words, b) ==
    LET starts == {i \in 1..Len(b) : SuffixMatch(words, SubSeq(b, i, Len(b)))}
    IN  IF starts = {} THEN b ELSE SubSeq(b, 1, MinOf(starts) - 1)

\* the first of the three patterns that matches, and no other after it
simplifyNameOnce(name) ==
    IF ReplaceAll(llcRegex, name) # name THEN ReplaceAll(llcRegex, name)
    ELSE IF ReplaceAll(coRegex, name) # name THEN ReplaceAll(coRegex, name)
    ELSE ReplaceAll(gmbhRegex, name)

\* cmd/update_data: simplifyName
simplifyName(name) ==
    ReplaceAll(gmbhRegex, ReplaceAll(coRegex, ReplaceAll(llcRegex, name)))

\* runtime-update library: simplifyName (trims the result)
simplifyNameLib(name) ==
    TrimSpace(ReplaceAll(gmbhRegex, ReplaceAll(coRegex, ReplaceAll(llcRegex, name))))

\* ------------------------------------------------------------- numbers

HexVal(c) == (CHOOSE i \in DOMAIN HexDigits : HexDigits[i] = LowerChar(c)) - 1

IsHexDigit(c) == \E i \in DOMAIN HexDigits : HexDigits[i] = LowerChar(c)

RECURSIVE HexNat(_)
HexNat(s) == IF s = <<>> THEN 0 ELSE 16 * HexNat(SubSeq(s, 1, Len(s) - 1)) + HexVal(s[Len(s)])

\* strconv.ParseInt(s, 16, 64): [ok, n]; n = 0 on a syntax error
ParseInt16(s) ==
    LET signed == s # <<>> /\ Head(s) \in {"+", "-"}
        body   == IF signed THEN Tail(s) ELSE s
    IN  IF body = <<>> \/ \E i \in DOMAIN body : ~IsHexDigit(body[i])
        THEN [ok |-> FALSE, n |-> 0]
        ELSE [ok |-> TRUE,
              n  |-> IF signed /\ Head(s) = "-" THEN 0 - HexNat(body) ELSE HexNat(body)]

\* fmt's %d
RECURSIVE FormatNat(_)
FormatNat(n) == IF n < 10 THEN <<Digits[n + 1]>> ELSE FormatNat(n \div 10) \o <<Digits[(n % 10) + 1]>>

FormatInt(n) == IF n < 0 THEN <<"-">> \o FormatNat(0 - n) ELSE FormatNat(n)

IsDigit(c) == \E i \in DOMAIN Digits : Digits[i] = c

DigitVal(c) == (CHOOSE i \in DOMAIN Digits : Digits[i] = c) - 1

RECURSIVE DecNat(_)
DecNat(s) == IF s = <<>> THEN 0 ELSE 10 * DecNat(SubSeq(s, 1, Len(s) - 1)) + DigitVal(s[Len(s)])

\* atoi: [ok, n]
atoi(s) ==
    IF s = <<>> THEN [ok |-> FALSE, n |-> 0]
    ELSE LET neg  == Head(s) = "-"
             body == IF neg THEN Tail(s) ELSE s
         IN  IF neg /\ Len(s) = 1 THEN [ok |-> FALSE, n |-> 0]
             ELSE IF \E i \in DOMAIN body : ~IsDigit(body[i]) THEN [ok |-> FALSE, n |-> 0]
             ELSE [ok |-> TRUE, n |-> IF neg THEN 0 - DecNat(body) ELSE DecNat(body)]

\* --------------------------------------------------------------- files

NoFile == [there |-> FALSE, bytes |-> <<>>]
File(b) == [there |-> TRUE, bytes |-> b]

\* the fields of one csv line: split at commas (no quoted field occurs in an
\* entries file, whose rows are "<oui>,<id>")
RECURSIVE SplitOn(_, _)
SplitOn(s, sep) ==
    IF \E i \in DOMAIN s : s[i] = sep
    THEN LET i == MinOf({j \in DOMAIN s : s[j] = sep})
         IN  <<SubSeq(s, 1, i - 1)>> \o SplitOn(SubSeq(s, i + 1, Len(s)), sep)
    ELSE <<s>>

\* the text lines of a file: every LF ends one; an unterminated rest is a line too
RECURSIVE Lines(_)
Lines(b) ==
    IF b = <<>> THEN <<>>
    ELSE LET i == IndexLF(b)
         IN  IF i = 0 THEN <<b>>
             ELSE <<SubSeq(b, 1, i - 1)>> \o Lines(SubSeq(b, i + 1, Len(b)))

\* bufio.ScanLines: a line without its LF and without one CR before it
dropCR(t) == IF t # <<>> /\ t[Len(t)] = "\r" THEN SubSeq(t, 1, Len(t) - 1) ELSE t

ScanLines(b) == [i \in DOMAIN Lines(b) |-> dropCR(Lines(b)[i])]

\* csv.Reader over an unquoted file: empty lines are skipped, [err] is set when
\* a record's field count differs from the first record's (FieldsPerRecord = 0)
CsvRecords(b) ==
    LET recs == [i \in DOMAIN ScanLines(b) |-> SplitOn(ScanLines(b)[i], ",")]
        kept == SelectSeq(recs, LAMBDA r : r # <<<<>>>>)
    IN  [recs |-> kept,
         err  |-> \E i \in DOMAIN kept : Len(kept[i]) # Len(kept[1])]

\* binary.Write(w, binary.LittleEndian, int64): 8 bytes, two's complement.
\* Offsets stay below 2^24 in magnitude here, so bytes 4..8 are the sign fill.
EncodeLE(x) ==
    [i \in 1..8 |->
        IF x >= 0
        THEN (IF i <= 3 THEN (x \div (256 ^ (i - 1))) % 256 ELSE 0)
        ELSE (IF i <= 3 THEN 255 - ((((0 - x) - 1) \div (256 ^ (i - 1))) % 256) ELSE 255)]

Huge == 1073741824

\* binary.Read(r, binary.LittleEndian, &off) on 8 bytes
DecodeLE(b) ==
    LET low == b[1] + 256 * b[2] + 65536 * b[3]
    IN  IF \A i \in 4..8 : b[i] = 0 THEN low
        ELSE IF \A i \in 4..8 : b[i] = 255 THEN low - 16777216
        ELSE IF b[8] >= 128 THEN 0 - Huge ELSE Huge

\* ---------------------------------------------------------------- filter

\* a nil *filter / *Filter
NoFilter == [nil |-> TRUE]
NoRegex == "nil"

\* the vendor regular expressions the model draws from; README: (?i)^(Nokia|Sony)
MatchString(rx, s) ==
    /\ rx = "(?i)^(nokia|sony)"
    /\ \E w \in {<<"n","o","k","i","a">>, <<"s","o","n","y">>} :
          Len(s) >= Len(w) /\ ToLower(SubSeq(s, 1, Len(w))) = w

\* cmd/update_data: (*filter).allowVendor
allowVendor(f, name) ==
    IF f.nil THEN TRUE
    ELSE LET s == simplifyName(TrimSpace(StripQuotes(name)))
         IN  /\ (f.vendorSet # {} => s \in f.vendorSet)
             /\ (f.vendorRegex # NoRegex => MatchString(f.vendorRegex, s))

\* cmd/update_data: (*filter).allowOUI
allowOUI(f, o) ==
    IF f.nil THEN TRUE
    ELSE f.ouiSet = {} \/ ToLower(o) \in f.ouiSet

\* buildFromCSV: vendorSet built from filt.VendorNames
LibVendorSet(filt) ==
    IF filt.nil THEN {}
    ELSE {simplifyNameLib(TrimSpace(v)) : v \in Range(filt.VendorNames)} \ {<<>>}

\* buildFromCSV: ouiSet built from filt.OUIs
LibOUISet(filt) ==
    IF filt.nil THEN {}
    ELSE LET clean(o) == macCleaner(ToLower(TrimSpace(o)))
         IN  {SubSeq(clean(o), 1, 6) : o \in {x \in Range(filt.OUIs) : Len(clean(x)) >= 6}}

\* buildFromCSV: the allowVendor closure
allowVendorLib(filt, v) ==
    IF filt.nil THEN TRUE
    ELSE LET sv == simplifyNameLib(v)
         IN  /\ (LibVendorSet(filt) # {} => sv \in LibVendorSet(filt))
             /\ (filt.VendorRegex # NoRegex => MatchString(filt.VendorRegex, sv))

\* an allowOUI that takes an empty OUI set for a set nothing is in
allowOUILibNonEmpty(filt, o) ==
    IF filt.nil THEN TRUE
    ELSE ToLower(o) \in LibOUISet(filt)

\* buildFromCSV: the allowOUI closure
allowOUILib(filt, o) ==
    IF filt.nil THEN TRUE
    ELSE LibOUISet(filt) = {} \/ ToLower(o) \in LibOUISet(filt)

\* --------------------------------------------------------- lookup engine

NotFound == [v |-> <<>>, ok |-> FALSE, panic |-> FALSE]
Found(name) == [v |-> name, ok |-> TRUE, panic |-> FALSE]
\* a runtime panic (slice bounds out of range) instead of a return
Panicked == [v |-> <<>>, ok |-> FALSE, panic |-> TRUE]

\* default build: resolveOrBuild with WithDir(dir); TRUE when a file system is returned
resolveOrBuild(d) ==
    \/ d.entries.there
    \/ (d.entries.there /\ d.vendors.there /\ d.index.there)

\* Open: the entries map; rows with fewer than 2 fields or a non-numeric id
\* are ignored, a later row for the same key replaces an earlier one
EntriesMap(recs) ==
    LET good == {i \in DOMAIN recs : Len(recs[i]) >= 2 /\ atoi(recs[i][2]).ok}
        lastOf(k) == CHOOSE i \in good :
                        /\ recs[i][1] = k
                        /\ \A j \in good : recs[j][1] = k => j <= i
    IN  [k \in {recs[i][1] : i \in good} |-> atoi(recs[lastOf(k)][2]).n]

\* Open: the index decoded as consecutive little-endian int64s
IndexOffsets(b) == [i \in 1..(Len(b) \div 8) |-> DecodeLE(SubSeq(b, 8 * (i - 1) + 1, 8 * i))]

OpenError == [state |-> "error"]
Unopened == [state |-> "unopened"]

\* an Open that takes the whole int64s of any index, and none
OpenAnyIndex(d) ==
    IF ~resolveOrBuild(d) THEN OpenError
    ELSE IF ~d.entries.there \/ CsvRecords(d.entries.bytes).err THEN OpenError
    ELSE IF ~d.vendors.there \/ ~d.index.there THEN OpenError
    ELSE [state   |-> "open",
          entries |-> EntriesMap(CsvRecords(d.entries.bytes).recs),
          vendors |-> d.vendors.bytes,
          offsets |-> IndexOffsets(d.index.bytes)]

\* Open(WithDir(dir), WithAutoUpdate(false)): the DB, or OpenError
Open(d) ==
    IF ~resolveOrBuild(d) THEN OpenError
    ELSE IF ~d.entries.there \/ CsvRecords(d.entries.bytes).err THEN OpenError
    ELSE IF ~d.vendors.there \/ ~d.index.there THEN OpenError
    ELSE IF Len(d.index.bytes) % 8 # 0 \/ Len(d.index.bytes) = 0 THEN OpenError
    ELSE [state   |-> "open",
          entries |-> EntriesMap(CsvRecords(d.entries.bytes).recs),
          vendors |-> d.vendors.bytes,
          offsets |-> IndexOffsets(d.index.bytes)]

\* resolveOrBuild with WithFS(src) and no directory, no build on demand: src
\* when it opens entries, the default location when that holds all three
\* files; [ok, dir]
resolveFS(src, elsewhere) ==
    IF src.entries.there THEN [ok |-> TRUE, dir |-> src]
    ELSE IF elsewhere.entries.there /\ elsewhere.vendors.there /\ elsewhere.index.there
    THEN [ok |-> TRUE, dir |-> elsewhere]
    ELSE [ok |-> FALSE, dir |-> src]

\* Open(WithFS(src)), the default location holding elsewhere
OpenFS(src, elsewhere) ==
    IF resolveFS(src, elsewhere).ok THEN Open(resolveFS(src, elsewhere).dir)
    ELSE OpenError

\* DB.Lookup, the normalisation: [ok, s]
Normalize(q) ==
    LET s == macCleaner(q)
    IN  IF Len(s) < 6 THEN [ok |-> FALSE, s |-> <<>>]
        ELSE [ok |-> TRUE, s |-> ToLower(SubSeq(s, 1, 6))]

Nil == "nil"

\* a vendorByID without the scan: any range that fails the check is an error
vendorSliceStrict(vendors, start, end) ==
    IF start < 0 \/ end < start \/ end > Len(vendors)
    THEN [v |-> <<>>, err |-> "offset out of range", panic |-> FALSE]
    ELSE [v |-> TrimRight(SubSeq(vendors, start + 1, end), {"\r", LF}),
          err |-> Nil, panic |-> FALSE]

\* DB.vendorByID once start and end are read: the slice, or the scan to the
\* newline; [v, err, panic]
vendorSlice(vendors, start, end) ==
    IF start < 0 \/ end < start \/ end > Len(vendors)
    THEN IF start >= Len(vendors)
         THEN [v |-> <<>>, err |-> "offset out of range", panic |-> FALSE]
         ELSE IF start < 0
         THEN [v |-> <<>>, err |-> Nil, panic |-> TRUE]   \* db.vendors[start:]
         ELSE LET b == SubSeq(vendors, start + 1, Len(vendors))
                  i == IndexLF(b)
              IN  [v |-> IF i > 0 THEN TrimRight(SubSeq(b, 1, i - 1), {"\r", LF})
                         ELSE TrimRight(b, {"\r", LF}),
                   err |-> Nil, panic |-> FALSE]
    ELSE [v |-> TrimRight(SubSeq(vendors, start + 1, end), {"\r", LF}),
          err |-> Nil, panic |-> FALSE]

\* a vendorByID that wraps the id around the table instead of refusing it
vendorByIDWrapping(d, id) ==
    IF Len(d.offsets) < 2
    THEN [v |-> <<>>, err |-> "id out of range", panic |-> FALSE]
    ELSE LET idx == (id - 1) % (Len(d.offsets) - 1)
         IN  vendorSlice(d.vendors, d.offsets[idx + 1], d.offsets[idx + 2])

\* the reading search_test.go expects: the id is the index into offsets
vendorByIDZeroBased(d, id) ==
    IF id < 0 \/ id + 1 >= Len(d.offsets)
    THEN [v |-> <<>>, err |-> "id out of range", panic |-> FALSE]
    ELSE vendorSlice(d.vendors, d.offsets[id + 1], d.offsets[id + 2])

\* DB.vendorByID: ids are 1-based; offsets[idx] (0-based) is offsets[idx + 1] here
vendorByID(d, id) ==
    LET idx == id - 1
    IN  IF idx < 0 \/ idx + 1 >= Len(d.offsets)
        THEN [v |-> <<>>, err |-> "id out of range", panic |-> FALSE]
        ELSE vendorSlice(d.vendors, d.offsets[idx + 1], d.offsets[idx + 2])

\* DB.Lookup: id, ok := db.entries[s]
entryID(d, s) ==
    IF s \in DOMAIN d.entries THEN [ok |-> TRUE, id |-> d.entries[s]]
    ELSE [ok |-> FALSE, id |-> 0]

\* a reader of offsets that takes the id for the index
offsetsOfZeroBased(d, id) ==
    IF id < 0 \/ id + 1 >= Len(d.offsets)
    THEN [err |-> TRUE, start |-> 0, end |-> 0]
    ELSE [err |-> FALSE, start |-> d.offsets[id + 1], end |-> d.offsets[id + 2]]

\* DB.vendorByID: the range check and the two reads of db.offsets
offsetsOf(d, id) ==
    LET idx == id - 1
    IN  IF idx < 0 \/ idx + 1 >= Len(d.offsets)
        THEN [err |-> TRUE, start |-> 0, end |-> 0]
        ELSE [err |-> FALSE, start |-> d.offsets[idx + 1], end |-> d.offsets[idx + 2]]

\* DB.Lookup after vendorByID returned r
LookupResult(r) ==
    IF r.panic THEN Panicked
    ELSE IF r.err # Nil THEN NotFound
    ELSE Found(r.v)

\* DB.Lookup
Lookup(d, q) ==
    LET n == Normalize(q)
    IN  IF ~n.ok THEN NotFound
        ELSE IF n.s \notin DOMAIN d.entries THEN NotFound
        ELSE IF d.entries[n.s] <= 0 THEN NotFound
        ELSE LookupResult(vendorByID(d, d.entries[n.s]))

\* --------------------------------------------------------------- builder

\* what csv.Reader.Read returns for one line: a record, or an error
Row(r) == [err |-> FALSE, rec |-> r]
CsvError == [err |-> TRUE, rec |-> <<>>]

\* newTemplateData: a row's OUI and vendor name, and whether the filter skips it
RowCmd(rec, f) ==
    LET o == ToLower(rec[2])
        v == simplifyName(StripQuotes(TrimSpace(rec[3])))
    IN  [o |-> o, v |-> v,
         skip |-> \/ (~f.nil /\ ~allowOUI(f, o))
                  \/ (~f.nil /\ ~allowVendor(f, v))]

\* buildFromCSV: a row's OUI and vendor name, and whether it is skipped
RowLib(rec, filt) ==
    IF Len(rec) < 3 THEN [o |-> <<>>, v |-> <<>>, skip |-> TRUE]
    ELSE LET o  == ToLower(TrimSpace(rec[2]))
             v0 == StripQuotes(TrimSpace(rec[3]))
         IN  [o |-> o, v |-> simplifyNameLib(v0),
              skip |-> ~allowOUILib(filt, o) \/ ~allowVendorLib(filt, v0)]

\* a builder that keeps every row
NeverDuplicate(m, o) == FALSE

\* if prev, ok := ouiMap[o]; ok { continue }
IsDuplicate(m, o) == o \in DOMAIN m

\* a builder that forgets id++
AssignVendorSameId(vs, vm, n, v) ==
    IF v \in DOMAIN vm THEN [vendors |-> vs, vendorMap |-> vm, id |-> n]
    ELSE [vendors |-> Append(vs, v), vendorMap |-> vm @@ (v :> n), id |-> n]

\* if _, ok := vendorMap[v]; !ok { vendors = append(vendors, v); vendorMap[v] = id; id++ }
AssignVendor(vs, vm, n, v) ==
    IF v \in DOMAIN vm THEN [vendors |-> vs, vendorMap |-> vm, id |-> n]
    ELSE [vendors |-> Append(vs, v), vendorMap |-> vm @@ (v :> n), id |-> n + 1]

\* sort.Slice by the OUI parsed in base 16: any order of the entries that is
\* non-decreasing in the key (the sort is not stable)
SortedOrders(es) ==
    LET key(e) == ParseInt16(e.OUI).n
    IN  IF es = <<>> THEN {<<>>}
        ELSE {[i \in DOMAIN es |-> es[p[i]]] :
                p \in {q \in Permutations(DOMAIN es) :
                         \A i, j \in DOMAIN es : i < j => key(es[q[i]]) <= key(es[q[j]])}}

\* OUI.Int panics on a string that is not hexadecimal; sort.Slice compares
\* every element once there are two
SortPanics(es) == Len(es) >= 2 /\ \E i \in DOMAIN es : ~ParseInt16(es[i].OUI).ok

\* the entries file: one "<oui>,<id>\n" per entry
EntriesFile(es) ==
    Concat([i \in DOMAIN es |-> es[i].OUI \o <<",">> \o FormatInt(es[i].VendorID) \o <<LF>>])

\* the vendors file: one "<name>\n" per vendor
VendorsFile(vs) == Concat([i \in DOMAIN vs |-> vs[i] \o <<LF>>])

\* offsets that count the line without its newline
RECURSIVE OffsetsWithoutNewline(_, _)
OffsetsWithoutNewline(toks, offset) ==
    IF toks = <<>> THEN <<>>
    ELSE <<offset + Len(Head(toks))>>
         \o OffsetsWithoutNewline(Tail(toks), offset + Len(Head(toks)))

RECURSIVE RunningOffsets(_, _)
RunningOffsets(toks, offset) ==
    IF toks = <<>> THEN <<>>
    ELSE <<offset + Len(Head(toks)) + 1>>
         \o RunningOffsets(Tail(toks), offset + Len(Head(toks)) + 1)

\* createIndex: offset 0, then after each scanned line the offset advanced by
\* len(line) + 1
IndexedOffsets(b) == <<0>> \o RunningOffsets(ScanLines(b), 0)

\* createIndex: the index file's bytes
createIndex(b) == Concat([i \in DOMAIN IndexedOffsets(b) |-> EncodeLE(IndexedOffsets(b)[i])])

\* ----------------------------------------------------------------- state

VARIABLES
    mode,       \* "cmd": cmd/update_data; "lib": buildFromCSV; "files": a dataset left on
                \* disk, opened WithDir; "fs": the same, opened WithFS
    flags,      \* cmd/update_data's command line: -include-vendors, -include-ouis,
                \* -vendor-regex
    header,     \* whether the registry's header row can be read
    registry,   \* the raw registry after its header: what csv.Reader.Read returns per line
    flt,        \* the builder's filter, or NoFilter
    pc,         \* the builder's position
    pos,        \* registry rows read so far
    ouiMap,     \* OUI -> vendor name, of the rows kept so far
    vendorMap,  \* vendor name -> id
    vendors,    \* vendor names in first-seen order
    entries,    \* accumulated entry{OUI, VendorID, Vendor}
    id,         \* the next vendor id
    disk,       \* the data directory: entries, vendors, vendors.index
    cache,      \* the default location: PG_OUI_DATA_DIR or <user cache dir>/pg-oui
    fixture,    \* what a hand-written dataset was written from (mode "files")
    db,         \* the DB Open returned, Unopened before, OpenError on failure
    last,       \* the last DB.Lookup call: its query and what it returned
    calls,      \* concurrent DB.Lookup calls in flight, per caller
    def         \* the package's default DB: defOnce, defDB, defErr

vars == <<mode, flags, header, registry, flt, pc, pos, ouiMap, vendorMap, vendors, entries, id,
          disk, cache, fixture, db, last, calls, def>>

input == <<mode, flags, header, registry, flt, fixture, cache>>
locals == <<pos, ouiMap, vendorMap, vendors, entries, id>>

NoCall == [called |-> FALSE]

\* a command line without filter flags
NoFlags == [includeVendors |-> <<>>, includeOUIs |-> <<>>, vendorRegex |-> NoRegex]

\* a nil *DB
NilDB == [state |-> "nil"]

\* defOnce (its done flag and the holder of its mutex, 0: free), defDB, defErr
\* before first use; opens counts the executions of Open
NoDefault == [done |-> FALSE, m |-> 0, DB |-> NilDB, Err |-> "nil", opens |-> 0]
NoDisk == [entries |-> NoFile, vendors |-> NoFile, index |-> NoFile]

NoFixture == [lines |-> <<>>, pairs |-> <<>>, offsets |-> <<0>>]

\* ---------------------------------------------------------------- inputs

MaxRows == 3

BoundedSeq(S, n) == UNION {[1..k -> S] : k \in 0..n}

MAL == <<"M","A","-","L">>
Sony == <<"S","o","n","y">>
SonyCorp == <<"S","o","n","y"," ","C","o","r","p">>
Apple == <<"A","p","p","l","e">>
AppleInc == <<"A","p","p","l","e",","," ","I","n","c",".">>

\* registry lines: Registry, Assignment, Organization Name
RegistryRows ==
    {Row(<<MAL, <<"0","0","0","0","0","B">>, SonyCorp>>),
     Row(<<MAL, <<"0","0","0","0","0","a">>, Sony>>),
     Row(<<MAL, <<"0","0","0","0","0","A">>, AppleInc>>),
     Row(<<MAL, <<"0","0","0","0","a">>, AppleInc>>),
     Row(<<MAL, <<"0","0","0","0","0","g">>, Sony>>),
     CsvError}

\* cmd/update_data: the *filter parseFilter returns
CmdFilters ==
    {NoFilter,
     [nil |-> FALSE, vendorSet |-> {Apple}, vendorRegex |-> NoRegex, ouiSet |-> {}]}

\* library: the *Filter given to WithFilter
LibFilters ==
    {NoFilter,
     [nil |-> FALSE, VendorNames |-> <<AppleInc>>, VendorRegex |-> NoRegex, OUIs |-> <<>>]}

\* the OUIs looked up after a build: every OUI of the registry as the builder keys it
BuildQueries ==
    {ToLower(TrimSpace(r.rec[2])) : r \in {x \in RegistryRows : ~x.err}}

\* ------------------------------------------------------------------ Init

Init ==
    /\ mode \in {"cmd", "lib"}
    /\ flags = NoFlags
    /\ header = "read"
    /\ registry \in BoundedSeq(RegistryRows, MaxRows)
    /\ flt \in (IF mode = "cmd" THEN CmdFilters ELSE LibFilters)
    /\ pc = "read"
    /\ pos = 0
    /\ ouiMap = <<>>
    /\ vendorMap = <<>>
    /\ vendors = <<>>
    /\ entries = <<>>
    /\ id = 0
    /\ disk = NoDisk
    /\ cache = NoDisk
    /\ fixture = NoFixture
    /\ db = Unopened
    /\ last = NoCall
    /\ calls = <<>>
    /\ def = NoDefault

\* --------------------------------------------------------------- actions

\* the loop body after the filter: dedup by OUI, vendor id, append the entry
Accumulate(r) ==
    IF r.skip \/ IsDuplicate(ouiMap, r.o)
    THEN UNCHANGED <<ouiMap, vendorMap, vendors, entries, id>>
    ELSE LET a == AssignVendor(vendors, vendorMap, id, r.v)
         IN  /\ ouiMap' = ouiMap @@ (r.o :> r.v)
             /\ vendors' = a.vendors
             /\ vendorMap' = a.vendorMap
             /\ id' = a.id
             /\ entries' = Append(entries,
                   [OUI |-> r.o, VendorID |-> a.vendorMap[r.v], Vendor |-> r.v])

\* newTemplateData: the header, then one c.Read() and the loop body; io.EOF
\* ends the loop
newTemplateData_Read ==
    /\ mode = "cmd" /\ pc = "read"
    /\ IF header # "read"
       THEN pc' = "panic" /\ UNCHANGED locals
       ELSE IF pos = Len(registry)
       THEN pc' = "sort" /\ UNCHANGED locals
       ELSE IF registry[pos + 1].err \/ Len(registry[pos + 1].rec) < 3
       THEN pc' = "panic" /\ UNCHANGED locals
       ELSE /\ pc' = pc
            /\ pos' = pos + 1
            /\ Accumulate(RowCmd(registry[pos + 1].rec, flt))
    /\ UNCHANGED <<input, def, disk, db, last, calls>>

\* newTemplateData: sort.Slice(entries, OUI.Int() < OUI.Int())
newTemplateData_Sort ==
    /\ mode = "cmd" /\ pc = "sort"
    /\ IF SortPanics(entries)
       THEN pc' = "panic" /\ UNCHANGED entries
       ELSE pc' = "entries" /\ entries' \in SortedOrders(entries)
    /\ UNCHANGED <<input, def, pos, ouiMap, vendorMap, vendors, id, disk, db, last, calls>>

\* updateData: create and write <outdir>/entries
updateData_Entries ==
    /\ mode = "cmd" /\ pc = "entries"
    /\ disk' = [disk EXCEPT !.entries = File(EntriesFile(entries))]
    /\ pc' = "vendors"
    /\ UNCHANGED <<input, def, locals, db, last, calls>>

\* updateData: create and write <outdir>/vendors
updateData_Vendors ==
    /\ mode = "cmd" /\ pc = "vendors"
    /\ disk' = [disk EXCEPT !.vendors = File(VendorsFile(vendors))]
    /\ pc' = "index"
    /\ UNCHANGED <<input, def, locals, db, last, calls>>

\* updateData: createIndex(fileVendors.Name())
updateData_Index ==
    /\ mode = "cmd" /\ pc = "index"
    /\ disk' = [disk EXCEPT !.index = File(createIndex(disk.vendors.bytes))]
    /\ pc' = "done"
    /\ UNCHANGED <<input, def, locals, db, last, calls>>

\* buildFromCSV: the header, then one c.Read() and the loop body; io.EOF ends
\* the loop
buildFromCSV_Read ==
    /\ mode = "lib" /\ pc = "read"
    /\ IF header # "read"
       THEN pc' = "error" /\ UNCHANGED locals
       ELSE IF pos = Len(registry)
       THEN pc' = "sort" /\ UNCHANGED locals
       ELSE IF registry[pos + 1].err
       THEN pc' = "error" /\ UNCHANGED locals
       ELSE /\ pc' = pc
            /\ pos' = pos + 1
            /\ Accumulate(RowLib(registry[pos + 1].rec, flt))
    /\ UNCHANGED <<input, def, disk, db, last, calls>>

\* buildFromCSV: sort.Slice(entries, ...) with ParseInt's error dropped
buildFromCSV_Sort ==
    /\ mode = "lib" /\ pc = "sort"
    /\ pc' = "entries"
    /\ entries' \in SortedOrders(entries)
    /\ UNCHANGED <<input, def, pos, ouiMap, vendorMap, vendors, id, disk, db, last, calls>>

\* buildFromCSV: create and write <outdir>/entries
buildFromCSV_Entries ==
    /\ mode = "lib" /\ pc = "entries"
    /\ disk' = [disk EXCEPT !.entries = File(EntriesFile(entries))]
    /\ pc' = "vendors"
    /\ UNCHANGED <<input, def, locals, db, last, calls>>

\* buildFromCSV: create and write <outdir>/vendors
buildFromCSV_Vendors ==
    /\ mode = "lib" /\ pc = "vendors"
    /\ disk' = [disk EXCEPT !.vendors = File(VendorsFile(vendors))]
    /\ pc' = "index"
    /\ UNCHANGED <<input, def, locals, db, last, calls>>

\* buildFromCSV: createIndex(<outdir>/vendors)
buildFromCSV_Index ==
    /\ mode = "lib" /\ pc = "index"
    /\ disk' = [disk EXCEPT !.index = File(createIndex(disk.vendors.bytes))]
    /\ pc' = "done"
    /\ UNCHANGED <<input, def, locals, db, last, calls>>

\* Open on the data directory, once the dataset is there
DoOpen ==
    /\ pc = "done" /\ db.state = "unopened"
    /\ db' = IF mode = "fs" THEN OpenFS(disk, cache) ELSE Open(disk)
    /\ UNCHANGED <<input, def, pc, locals, disk, last, calls>>

\* db.Lookup(q), start to return
DoLookup(q) ==
    /\ db.state = "open"
    /\ last' = [called |-> TRUE, q |-> q, res |-> Lookup(db, q)]
    /\ UNCHANGED <<input, def, pc, locals, disk, db, calls>>

Next ==
    \/ newTemplateData_Read
    \/ newTemplateData_Sort
    \/ updateData_Entries
    \/ updateData_Vendors
    \/ updateData_Index
    \/ buildFromCSV_Read
    \/ buildFromCSV_Sort
    \/ buildFromCSV_Entries
    \/ buildFromCSV_Vendors
    \/ buildFromCSV_Index
    \/ DoOpen
    \/ \E q \in BuildQueries : DoLookup(q)

Spec == Init /\ [][Next]_vars

\* ------------------------------------------------- a dataset left on disk

MaxLines == 2

VendorOne == <<"V","e","n","d","o","r"," ","O","n","e">>
VendorTwo == <<"V","e","n","d","o","r"," ","T","w","o">>
abcdef == <<"a","b","c","d","e","f">>
abcd12 == <<"a","b","c","d","1","2">>

FixtureNames == {VendorOne, VendorTwo}
FixtureOUIs == {abcdef, abcd12}

\* writeVendors: the offsets written for lines, 0 first
LineOffsets(lines) == <<0>> \o RunningOffsets(lines, 0)

\* the index of a directory: the offsets of its vendors file, or those with one
\* offset overwritten (Open takes any index whose length is a multiple of 8)
IndexChoices(lines) ==
    LET good == LineOffsets(lines)
    IN  {good} \cup {[good EXCEPT ![i] = x] :
                        i \in DOMAIN good, x \in {0 - 1, good[Len(good)] + 1}}

\* writeEntries: OUI -> id
PairMaps(n) == UNION {[D -> (0 - 1)..(n + 1)] : D \in SUBSET FixtureOUIs}

Datasets(n) ==
    UNION {{[lines |-> l, pairs |-> p, offsets |-> o] :
               p \in PairMaps(Len(l)), o \in IndexChoices(l)} :
           l \in BoundedSeq(FixtureNames, n)}

Intact(f) == f.offsets = LineOffsets(f.lines)

\* README, Data Files; TestSearchVendor_NormalizationAndTrim
ReadmeDataset ==
    [lines |-> <<VendorOne, VendorTwo>>,
     pairs |-> (abcdef :> 1) @@ (abcd12 :> 2),
     offsets |-> LineOffsets(<<VendorOne, VendorTwo>>)]

\* writeEntries: one "<oui>,<id>\n" per pair, in the order the map is ranged over
PairRows(pairs) ==
    {[i \in DOMAIN ord |-> ord[i] \o <<",">> \o FormatInt(pairs[ord[i]]) \o <<LF>>] :
        ord \in {o \in [1..Cardinality(DOMAIN pairs) -> DOMAIN pairs] :
                    \A i, j \in DOMAIN o : i # j => o[i] # o[j]}}

\* the directory writeVendors and writeEntries leave
DatasetDisks(f) ==
    {[entries |-> File(Concat(rows)),
      vendors |-> File(VendorsFile(f.lines)),
      index   |-> File(Concat([i \in DOMAIN f.offsets |-> EncodeLE(f.offsets[i])]))] :
        rows \in PairRows(f.pairs)}

QColons == <<"A","B",":","C","D",":","E","F",":","1","2",":","3","4",":","5","6">>
QDashes == <<"A","B","-","C","D","-","E","F","-","1","2","-","3","4","-","5","6">>
QDots == <<"a","b",".","c","d",".","e","f">>
QSpaces == <<"a","b"," ","c","d"," ","e","f"," ","9","9">>
QLong == <<"a","b","c","d","1","2","d","e","a","d","b","e","e","f">>
QAbsent == <<"1","2","3","4","5","6">>
QShort == <<"a","b",":","c","d">>
QEmpty == << >>

FileQueries ==
    {abcdef, abcd12, QColons, QDashes, QDots, QSpaces, QLong, QAbsent, QShort, QEmpty}

\* a caller of DB.Lookup that is not in a call
Idle == [pc |-> "idle", q |-> << >>, s |-> << >>, id |-> 0, start |-> 0, end |-> 0,
         res |-> NotFound]

InitOnDisk(F, callers) ==
    /\ mode = "files"
    /\ flags = NoFlags
    /\ header = "read"
    /\ registry = <<>>
    /\ flt = NoFilter
    /\ pc = "done"
    /\ pos = 0
    /\ ouiMap = <<>>
    /\ vendorMap = <<>>
    /\ vendors = <<>>
    /\ entries = <<>>
    /\ id = 0
    /\ fixture \in F
    /\ disk \in DatasetDisks(fixture)
    /\ cache = NoDisk
    /\ db = Unopened
    /\ last = NoCall
    /\ calls = [c \in 1..callers |-> Idle]
    /\ def = NoDefault

InitFiles == InitOnDisk(Datasets(MaxLines), 0)

NextFiles ==
    \/ DoOpen
    \/ \E q \in FileQueries : DoLookup(q)

SpecFiles == InitFiles /\ [][NextFiles]_vars

\* ------------------------------------------------- claims on SpecFiles

C3_ZeroBasedResolution ==
    (last.called /\ Intact(fixture)) =>
        \A k \in DOMAIN fixture.pairs :
            (last.q = k /\ fixture.pairs[k] \in 0..(Len(fixture.lines) - 1))
               => last.res = Found(fixture.lines[fixture.pairs[k] + 1])

\* what remains of a query once the separators are taken out
Bare(q) == SelectSeq(q, LAMBDA c : c \notin {":", "-", ".", " "})

\* C5: Lookup returns normally for every opened DB and every query, and
\* returns ("", false) when fewer than 6 characters remain after the separators
\* are removed or the 6-character key is not in the entries mapping.
C5_LookupNeverRaises ==
    last.called =>
        /\ ~last.res.panic
        /\ (\/ Len(Bare(last.q)) < 6
            \/ ToLower(SubSeq(Bare(last.q), 1, 6)) \notin DOMAIN fixture.pairs)
              => last.res = NotFound

\* ------------------------------------------------ the forms of a query

MaxSeps == 1
MaxExtra == 1

Separators == {":", "-", ".", " "}
ExtraChars == {"9"}

\* s with sep put in front of position p + 1 for every p in P (p = Len(s): at the end)
InsertAt(s, P, sep) ==
    Concat([i \in 1..(Len(s) + 1) |->
               (IF (i - 1) \in P THEN <<sep>> ELSE << >>)
               \o (IF i <= Len(s) THEN <<s[i]>> ELSE << >>)])

\* x, upper-cased or not, with up to MaxSeps separators anywhere, followed by
\* up to MaxExtra more characters
Variants(x) ==
    {InsertAt(c, P, sep) \o ext :
        c \in {x, ToUpper(x)},
        P \in {S \in SUBSET (0..Len(x)) : Cardinality(S) <= MaxSeps},
        sep \in Separators,
        ext \in BoundedSeq(ExtraChars, MaxExtra)}

VariantsOfAbcd12 == Variants(abcd12)

QueryForms == VariantsOfAbcd12 \cup {abcdef, QColons, QAbsent, QShort}

QueryDatasets ==
    {ReadmeDataset,
     [ReadmeDataset EXCEPT !.pairs = (abcdef :> 2) @@ (abcd12 :> 1)],
     [ReadmeDataset EXCEPT !.pairs = (abcdef :> 1) @@ (abcd12 :> 0)],
     [ReadmeDataset EXCEPT !.pairs = (abcdef :> 1)]}

InitQuery == InitOnDisk(QueryDatasets, 0)

NextQuery ==
    \/ DoOpen
    \/ \E q \in QueryForms : DoLookup(q)

SpecQuery == InitQuery /\ [][NextQuery]_vars

\* C4: Lookup(x), Lookup(uppercase(x)), Lookup of x with separators put in at
\* any positions and Lookup(x followed by extra characters) all return the
\* same (name, found): any two such calls on one DB agree.
C4_NormalizationInvariance ==
    [][(/\ last.called /\ last'.called
        /\ last.q \in VariantsOfAbcd12
        /\ last'.q \in VariantsOfAbcd12) => last'.res = last.res]_vars

C4_Witness ==
    /\ last.called
    /\ last.q \in VariantsOfAbcd12 \ {abcd12}
    /\ last.q # ToLower(last.q)
    /\ \E i \in DOMAIN last.q : last.q[i] = "."
    /\ Len(Bare(last.q)) > 6
    /\ last.res = Found(VendorTwo)

\* ------------------------------------------------------ claims on Spec

Written == pc \in {"entries", "vendors", "index", "done"}

\* what each builder makes of each registry line under each filter
RowTable ==
    [m \in {"cmd", "lib"} |->
        [f \in (IF m = "cmd" THEN CmdFilters ELSE LibFilters) |->
            [r \in {x \in RegistryRows : ~x.err} |->
                IF m = "cmd" THEN RowCmd(r.rec, f) ELSE RowLib(r.rec, f)]]]

\* what the builder makes of input row i (i <= pos)
RowOf(i) == RowTable[mode][flt][registry[i]]

\* row i passes the filter and no earlier row that passes has its OUI
FirstOfItsOUI(i) ==
    /\ ~RowOf(i).skip
    /\ \A j \in 1..(i - 1) : ~(~RowOf(j).skip /\ RowOf(j).o = RowOf(i).o)

\* C1: for every row (oui, vendorID) of the entries file the builder wrote,
\* Open on the three written files followed by Lookup(oui) returns found=true
\* and the normalized vendor name the builder assigned to that OUI.
C1_RoundTrip ==
    (pc = "done" /\ db.state = "open" /\ last.called) =>
        \A i \in DOMAIN entries :
            last.q = entries[i].OUI => last.res = Found(entries[i].Vendor)

\* C6: each OUI is in at most one entry, which carries the vendor of the first
\* input row with that OUI among the rows passing the filter; a later row with
\* the same OUI adds no entry and no vendor id, and does not abort the build.
C6_FirstOccurrenceWins ==
    /\ \A i, j \in DOMAIN entries : i # j => entries[i].OUI # entries[j].OUI
    /\ \A i \in DOMAIN entries :
          \E r \in 1..pos : /\ FirstOfItsOUI(r)
                            /\ RowOf(r).o = entries[i].OUI
                            /\ RowOf(r).v = entries[i].Vendor
    /\ \A r \in 1..pos :
          ~RowOf(r).skip => \E i \in DOMAIN entries : entries[i].OUI = RowOf(r).o
    /\ Range(vendors) = {entries[i].Vendor : i \in DOMAIN entries}
    /\ pc \in {"panic", "error"} =>
          \/ pos < Len(registry) /\ registry[pos + 1].err
          \/ mode = "cmd" /\ pos = Len(registry) /\ SortPanics(entries)

C6_Witness ==
    /\ pc = "done"
    /\ \E r1, r2 \in 1..pos :
          /\ r1 < r2
          /\ FirstOfItsOUI(r1)
          /\ ~RowOf(r2).skip
          /\ RowOf(r2).o = RowOf(r1).o
          /\ RowOf(r2).v # RowOf(r1).v
          /\ \E r3 \in (r2 + 1)..pos : FirstOfItsOUI(r3)

\* C7: in every entries table the builder writes, for consecutive rows i, i+1
\* the OUIs read as base-16 integers are strictly ascending.
C7_StrictlyAscending ==
    Written =>
        \A i \in 1..(Len(entries) - 1) :
            ParseInt16(entries[i].OUI).n < ParseInt16(entries[i + 1].OUI).n

\* the row at which a vendor name was first given an id
FirstSeen(v) == MinOf({r \in 1..pos : FirstOfItsOUI(r) /\ RowOf(r).v = v})

NumCallers == 2

ConcDatasets ==
    {ReadmeDataset,
     [ReadmeDataset EXCEPT !.pairs = (abcdef :> 0) @@ (abcd12 :> 3)],
     [ReadmeDataset EXCEPT !.offsets = <<0, 11, 23>>],
     [ReadmeDataset EXCEPT !.offsets = <<0, 0 - 1, 22>>]}

\* hw.String() of LookupFromHardwareAddr is the QColons form in lower case
ConcQueries == {abcdef, abcd12, QColons, QAbsent, QShort}

InitConc == InitOnDisk(ConcDatasets, NumCallers)

Return(c, r) == calls' = [calls EXCEPT ![c].pc = "done", ![c].res = r]

\* DB.Lookup: the normalisation, on the caller's own string
Lookup_normalize(c, q) ==
    /\ db.state = "open"
    /\ calls[c].pc \in {"idle", "done"}
    /\ calls' = [calls EXCEPT ![c] =
                    IF Normalize(q).ok
                    THEN [Idle EXCEPT !.pc = "entries", !.q = q, !.s = Normalize(q).s]
                    ELSE [Idle EXCEPT !.pc = "done", !.q = q]]
    /\ UNCHANGED <<input, def, pc, locals, disk, db, last>>

\* DB.Lookup: the read of db.entries
Lookup_entries(c) ==
    /\ calls[c].pc = "entries"
    /\ LET e == entryID(db, calls[c].s)
       IN  IF ~e.ok \/ e.id <= 0 THEN Return(c, NotFound)
           ELSE calls' = [calls EXCEPT ![c].pc = "offsets", ![c].id = e.id]
    /\ UNCHANGED <<input, def, pc, locals, disk, db, last>>

\* DB.vendorByID: the reads of db.offsets
vendorByID_offsets(c) ==
    /\ calls[c].pc = "offsets"
    /\ LET o == offsetsOf(db, calls[c].id)
       IN  IF o.err THEN Return(c, NotFound)
           ELSE calls' = [calls EXCEPT ![c].pc = "vendors",
                                       ![c].start = o.start, ![c].end = o.end]
    /\ UNCHANGED <<input, def, pc, locals, disk, db, last>>

\* DB.vendorByID: the read of db.vendors, and Lookup's return
vendorByID_vendors(c) ==
    /\ calls[c].pc = "vendors"
    /\ Return(c, LookupResult(vendorSlice(db.vendors, calls[c].start, calls[c].end)))
    /\ UNCHANGED <<input, def, pc, locals, disk, db, last>>

NextConc ==
    \/ DoOpen
    \/ \E c \in 1..NumCallers, q \in ConcQueries : Lookup_normalize(c, q)
    \/ \E c \in 1..NumCallers : Lookup_entries(c)
    \/ \E c \in 1..NumCallers : vendorByID_offsets(c)
    \/ \E c \in 1..NumCallers : vendorByID_vendors(c)

SpecConc == InitConc /\ [][NextConc]_vars

\* C10: once Open has returned a DB no Lookup step changes db.entries,
\* db.vendors or db.offsets, and under every interleaving each call returns
\* what it returns when run alone.
C10_ReadOnlyLookups ==
    /\ [](\A c \in DOMAIN calls :
             calls[c].pc = "done" => calls[c].res = Lookup(db, calls[c].q))
    /\ [][db.state = "open" => db' = db]_vars

C10_Witness ==
    \E c1, c2 \in DOMAIN calls :
        /\ c1 # c2
        /\ calls[c1].pc = "done"
        /\ calls[c1].res = Found(VendorOne)
        /\ calls[c2].pc = "vendors"
        /\ calls[c2].q = abcd12

\* ------------------------------------------------------ the default DB

\* a caller of the package-level Lookup that is not in a call; db and err are
\* what defaultDB returned to it
IdleDefault == [pc |-> "idle", q |-> << >>, db |-> NilDB, err |-> Nil, res |-> NotFound]

\* the directory PG_OUI_DATA_DIR (or the default location) names: a dataset,
\* nothing, or a dataset whose index is empty
DefaultDisks ==
    DatasetDisks(ReadmeDataset)
    \cup {NoDisk}
    \cup {[d EXCEPT !.index = File(<< >>)] : d \in DatasetDisks(ReadmeDataset)}

DefaultQueries == {abcdef, QDashes, QAbsent}

InitDefault ==
    /\ mode = "files"
    /\ flags = NoFlags
    /\ header = "read"
    /\ registry = <<>>
    /\ flt = NoFilter
    /\ pc = "done"
    /\ pos = 0
    /\ ouiMap = <<>>
    /\ vendorMap = <<>>
    /\ vendors = <<>>
    /\ entries = <<>>
    /\ id = 0
    /\ fixture = ReadmeDataset
    /\ disk \in DefaultDisks
    /\ cache = NoDisk
    /\ db = Unopened
    /\ last = NoCall
    /\ calls = [c \in 1..NumCallers |-> IdleDefault]
    /\ def = NoDefault

\* a doSlow that runs f whatever the done flag says
runsFAlways(done) == TRUE

\* sync.Once.doSlow, with the mutex held: f runs if done is still 0
runsF(done) == ~done

\* Lookup / SearchVendor / SearchVendorFromMAC: the call of defaultDB()
Default_call(c, q) ==
    /\ calls[c].pc \in {"idle", "done"}
    /\ calls' = [calls EXCEPT ![c] = [IdleDefault EXCEPT !.pc = "once", !.q = q]]
    /\ UNCHANGED <<input, def, pc, locals, disk, db, last>>

\* defOnce.Do: the load of the done flag
Once_fast(c) ==
    /\ calls[c].pc = "once"
    /\ calls' = [calls EXCEPT ![c].pc = IF def.done THEN "return" ELSE "lock"]
    /\ UNCHANGED <<input, def, pc, locals, disk, db, last>>

\* defOnce.Do, doSlow: m.Lock() and the second look at done
Once_lock(c) ==
    /\ calls[c].pc = "lock"
    /\ def.m = 0
    /\ IF runsF(def.done)
       THEN /\ def' = [def EXCEPT !.m = c]
            /\ calls' = [calls EXCEPT ![c].pc = "f"]
       ELSE /\ def' = def
            /\ calls' = [calls EXCEPT ![c].pc = "return"]
    /\ UNCHANGED <<input, pc, locals, disk, db, last>>

\* defaultDB, inside Do: Open runs and defDB is assigned
defaultDB_Open(c) ==
    /\ calls[c].pc = "f"
    /\ def' = [def EXCEPT !.opens = def.opens + 1,
                          !.DB = IF Open(disk).state = "open" THEN Open(disk) ELSE NilDB]
    /\ calls' = [calls EXCEPT ![c].pc = "f2"]
    /\ UNCHANGED <<input, pc, locals, disk, db, last>>

\* a Do that leaves done unset when Open failed, so that a later call retries
defaultDB_ErrRetry(c) ==
    /\ calls[c].pc = "f2"
    /\ def' = [def EXCEPT !.Err = IF def.DB = NilDB THEN "dataset error" ELSE Nil,
                          !.done = (def.DB # NilDB), !.m = 0]
    /\ calls' = [calls EXCEPT ![c].pc = "return"]
    /\ UNCHANGED <<input, pc, locals, disk, db, last>>

\* defaultDB, inside Do: defErr is assigned; doSlow stores done and unlocks
defaultDB_Err(c) ==
    /\ calls[c].pc = "f2"
    /\ def' = [def EXCEPT !.Err = IF def.DB = NilDB THEN "dataset error" ELSE Nil,
                          !.done = TRUE, !.m = 0]
    /\ calls' = [calls EXCEPT ![c].pc = "return"]
    /\ UNCHANGED <<input, pc, locals, disk, db, last>>

\* defaultDB: return defDB, defErr
defaultDB_return(c) ==
    /\ calls[c].pc = "return"
    /\ calls' = [calls EXCEPT ![c].pc = "lookup", ![c].db = def.DB, ![c].err = def.Err]
    /\ UNCHANGED <<input, def, pc, locals, disk, db, last>>

\* Lookup: ("", false) on err, db.Lookup(s) otherwise (a nil db is dereferenced)
Default_Lookup(c) ==
    /\ calls[c].pc = "lookup"
    /\ calls' = [calls EXCEPT ![c].pc = "done",
                              ![c].res = IF calls[c].err # Nil THEN NotFound
                                         ELSE IF calls[c].db = NilDB THEN Panicked
                                         ELSE Lookup(calls[c].db, calls[c].q)]
    /\ UNCHANGED <<input, def, pc, locals, disk, db, last>>

NextDefault ==
    \/ \E c \in 1..NumCallers, q \in DefaultQueries : Default_call(c, q)
    \/ \E c \in 1..NumCallers : Once_fast(c)
    \/ \E c \in 1..NumCallers : Once_lock(c)
    \/ \E c \in 1..NumCallers : defaultDB_Open(c)
    \/ \E c \in 1..NumCallers : defaultDB_Err(c)
    \/ \E c \in 1..NumCallers : defaultDB_return(c)
    \/ \E c \in 1..NumCallers : Default_Lookup(c)

SpecDefault == InitDefault /\ [][NextDefault]_vars

\* C11: however many callers make their first package-level call at once,
\* Open runs once, and every caller gets the same outcome from defaultDB:
\* the fully loaded DB with a nil error, or a nil DB with the error; never
\* nil with nil, never a DB other than the one Open returned.
C11_InitializeOnce ==
    /\ def.opens <= 1
    /\ def.done => def.opens = 1
    /\ \A c \in DOMAIN calls :
          calls[c].pc \in {"lookup", "done"} =>
             \/ /\ Open(disk).state = "open"
                /\ calls[c].db = Open(disk)
                /\ calls[c].err = Nil
             \/ /\ Open(disk) = OpenError
                /\ calls[c].db = NilDB
                /\ calls[c].err # Nil
    /\ \A c1, c2 \in DOMAIN calls :
          (calls[c1].pc \in {"lookup", "done"} /\ calls[c2].pc \in {"lookup", "done"})
             => (calls[c1].db = calls[c2].db /\ calls[c1].err = calls[c2].err)

C11_Witness ==
    \E c1, c2 \in DOMAIN calls :
        /\ c1 # c2
        /\ calls[c1].pc = "done"
        /\ calls[c1].res = Found(VendorOne)
        /\ calls[c2].pc = "lookup"
        /\ calls[c2].db = calls[c1].db
        /\ def.opens = 1

\* --------------------------------------------- the source given to Open

\* a dataset whose index holds a negative offset
NegativeDataset == [ReadmeDataset EXCEPT !.offsets = <<0, 0 - 1, 22>>]

\* what the default location may hold: another dataset
OtherDataset ==
    [lines |-> <<VendorTwo>>, pairs |-> (abcdef :> 1), offsets |-> LineOffsets(<<VendorTwo>>)]

\* d without the files named in S
Without(d, S) ==
    [entries |-> IF "entries" \in S THEN NoFile ELSE d.entries,
     vendors |-> IF "vendors" \in S THEN NoFile ELSE d.vendors,
     index   |-> IF "index" \in S THEN NoFile ELSE d.index]

\* d with its index cut to its first k bytes
IndexCut(d, k) == [d EXCEPT !.index = File(SubSeq(d.index.bytes, 1, k))]

\* the sources Open is given: a dataset with any of its files missing, or with
\* an index of any length
SourceDisks(f) ==
    UNION {{Without(d, S) : S \in SUBSET {"entries", "vendors", "index"}}
           \cup {IndexCut(d, k) : k \in 0..Len(d.index.bytes)} :
           d \in DatasetDisks(f)}

OpenQueries == {abcdef, abcd12, QAbsent}

InitOpen ==
    /\ mode \in {"files", "fs"}
    /\ flags = NoFlags
    /\ header = "read"
    /\ registry = <<>>
    /\ flt = NoFilter
    /\ pc = "done"
    /\ pos = 0
    /\ ouiMap = <<>>
    /\ vendorMap = <<>>
    /\ vendors = <<>>
    /\ entries = <<>>
    /\ id = 0
    /\ fixture \in {ReadmeDataset, NegativeDataset}
    /\ disk \in SourceDisks(fixture)
    /\ cache \in {NoDisk} \cup DatasetDisks(OtherDataset)
    /\ db = Unopened
    /\ last = NoCall
    /\ calls = <<>>
    /\ def = NoDefault

NextOpen ==
    \/ DoOpen
    \/ \E q \in OpenQueries : DoLookup(q)

SpecOpen == InitOpen /\ [][NextOpen]_vars

\* the directory Open loads from
Loaded == IF mode = "fs" THEN resolveFS(disk, cache).dir ELSE disk

\* C12: an index file that is empty or whose length is not a multiple of 8
\* makes Open return an error and no DB; when Open succeeds, db.offsets has at
\* least one element, as many as the index has whole 8-byte words, each the
\* little-endian value of its word.
C12_CorruptIndexRejected ==
    db.state # "unopened" =>
        LET b == Loaded.index.bytes
        IN  /\ (Loaded.index.there /\ (Len(b) = 0 \/ Len(b) % 8 # 0)) => db = OpenError
            /\ db.state = "open" =>
                  /\ Len(db.offsets) >= 1
                  /\ 8 * Len(db.offsets) = Len(b)
                  /\ \A i \in DOMAIN db.offsets :
                        EncodeLE(db.offsets[i]) = SubSeq(b, 8 * (i - 1) + 1, 8 * i)

C12_Witness ==
    /\ db = OpenError
    /\ mode = "files"
    /\ disk.entries.there /\ disk.vendors.there /\ disk.index.there
    /\ Len(disk.index.bytes) > 16
    /\ Len(disk.index.bytes) % 8 # 0

\* C13: with no build on demand, a source that lacks one of entries, vendors
\* and index makes Open return an error and no DB, never a DB loaded from
\* another location.
C13_MissingDatasetFails ==
    (/\ db.state # "unopened"
     /\ ~(disk.entries.there /\ disk.vendors.there /\ disk.index.there))
        => db = OpenError

\* ------------------------------------- claims on SpecFiles: the offsets

\* the entries key a query comes down to, << >> when it is too short
KeyOf(q) == IF Len(Bare(q)) < 6 THEN << >> ELSE ToLower(SubSeq(Bare(q), 1, 6))

\* C14: whatever signed values the offsets of an accepted index hold, Lookup
\* of an OUI present in entries returns normally (a name found by the scan, or
\* ("", false)); it never panics on an index outside the vendors buffer.
C14_OffsetsDegrade ==
    (last.called /\ KeyOf(last.q) \in DOMAIN fixture.pairs) => ~last.res.panic

\* id's start offset is the true start of line id, inside the buffer, and its
\* end offset fails the bounds check
EndCorrupt(f, n) ==
    /\ n \in 1..Len(f.lines)
    /\ f.offsets[n] = LineOffsets(f.lines)[n]
    /\ f.offsets[n] < Len(VendorsFile(f.lines))
    /\ \/ f.offsets[n + 1] < f.offsets[n]
       \/ f.offsets[n + 1] > Len(VendorsFile(f.lines))

\* C19: when the start offset of an id is the true start of its vendor line
\* and the end offset fails the bounds check, Lookup returns found=true and
\* that line up to the next newline, the name it returns with the end intact.
C19_ScanFallback ==
    last.called =>
        \A k \in DOMAIN fixture.pairs :
            (last.q = k /\ EndCorrupt(fixture, fixture.pairs[k]))
               => last.res = Found(fixture.lines[fixture.pairs[k]])

C19_Witness ==
    /\ last.called
    /\ last.q = abcdef
    /\ abcdef \in DOMAIN fixture.pairs
    /\ fixture.pairs[abcdef] = 1
    /\ Len(fixture.lines) = 2
    /\ EndCorrupt(fixture, 1)
    /\ fixture.offsets[2] > Len(VendorsFile(fixture.lines))
    /\ last.res = Found(fixture.lines[1])

ShortRows ==
    {Row(<<MAL, <<"0","0","0","0","0","a">>>>),
     Row(<<MAL, <<"0","0","0","0","0","b">>>>)}

\* records of a registry whose header has three
WideRows ==
    {Row(<<MAL, <<"0","0","0","0","0","B">>, SonyCorp>>),
     Row(<<MAL, <<"0","0","0","0","0","A">>, AppleInc>>)}

\* encoding/csv holds every record to the header's column count
MalformedRegistries ==
    BoundedSeq(ShortRows \cup {CsvError}, MaxRows)
    \cup BoundedSeq(WideRows \cup {CsvError}, MaxRows)

InitMalformed ==
    /\ mode \in {"cmd", "lib"}
    /\ flags = NoFlags
    /\ header \in {"read", "unreadable"}
    /\ registry \in MalformedRegistries
    /\ flt = NoFilter
    /\ pc = "read"
    /\ pos = 0
    /\ ouiMap = <<>>
    /\ vendorMap = <<>>
    /\ vendors = <<>>
    /\ entries = <<>>
    /\ id = 0
    /\ disk = NoDisk
    /\ cache = NoDisk
    /\ fixture = NoFixture
    /\ db = Unopened
    /\ last = NoCall
    /\ calls = <<>>
    /\ def = NoDefault

SpecMalformed == InitMalformed /\ [][Next]_vars

\* the header cannot be read, or some row is no record of 3 columns or more
Malformed ==
    \/ header # "read"
    \/ \E i \in DOMAIN registry : registry[i].err \/ Len(registry[i].rec) < 3

\* C15: if the header row cannot be read or a data row cannot be parsed as a
\* record of at least 3 columns, the build ends in an error and creates or
\* overwrites none of entries, vendors and the index.
C15_MalformedAborts ==
    Malformed => (disk = NoDisk /\ pc \in {"read", "panic", "error"})

\* ------------------------------------- a build over an earlier dataset

\* what an earlier build left in the output directory
OldEntries == <<[OUI |-> <<"0","0","0","0","0","c">>, VendorID |-> 0, Vendor |-> Sony]>>
OldVendors == <<Sony>>

\* the three files one build writes for entries es and vendors vs
FromBuild(es, vs) ==
    [entries |-> File(EntriesFile(es)),
     vendors |-> File(VendorsFile(vs)),
     index   |-> File(createIndex(VendorsFile(vs)))]

OldDisk == FromBuild(OldEntries, OldVendors)

InitRebuild ==
    /\ mode \in {"cmd", "lib"}
    /\ flags = NoFlags
    /\ header = "read"
    /\ registry \in BoundedSeq(WideRows, MaxRows)
    /\ flt = NoFilter
    /\ pc = "read"
    /\ pos = 0
    /\ ouiMap = <<>>
    /\ vendorMap = <<>>
    /\ vendors = <<>>
    /\ entries = <<>>
    /\ id = 0
    /\ disk \in {NoDisk, OldDisk}
    /\ cache = NoDisk
    /\ fixture = NoFixture
    /\ db = Unopened
    /\ last = NoCall
    /\ calls = <<>>
    /\ def = NoDefault

\* the file a step creates, and what the step writes to it
StepFile(step) ==
    CASE step = "entries" -> "entries"
      [] step = "vendors" -> "vendors"
      [] step = "index"   -> "index"

StepBytes(step) ==
    CASE step = "entries" -> EntriesFile(entries)
      [] step = "vendors" -> VendorsFile(vendors)
      [] step = "index"   -> createIndex(disk.vendors.bytes)

StepAfter(step) ==
    CASE step = "entries" -> "vendors"
      [] step = "vendors" -> "index"
      [] step = "index"   -> "done"

\* os.Create fails: the file is left as it was. buildFromCSV returns the
\* error; updateData returns, except that it drops createIndex's error
CreateFails ==
    /\ pc \in {"entries", "vendors", "index"}
    /\ pc' = IF mode = "cmd" /\ pc = "index" THEN "done" ELSE "error"
    /\ UNCHANGED <<input, def, locals, disk, db, last, calls>>

\* os.Create has emptied the file and the write fails after k bytes.
\* buildFromCSV returns the error; updateData drops Flush's and
\* createIndex's and goes on
WriteFails ==
    /\ pc \in {"entries", "vendors", "index"}
    /\ \E k \in 0..(Len(StepBytes(pc)) - 1) :
          disk' = [disk EXCEPT ![StepFile(pc)] = File(SubSeq(StepBytes(pc), 1, k))]
    /\ pc' = IF mode = "cmd" THEN StepAfter(pc) ELSE "error"
    /\ UNCHANGED <<input, def, locals, db, last, calls>>

NextRebuild ==
    \/ Next
    \/ CreateFails
    \/ WriteFails

SpecRebuild == InitRebuild /\ [][NextRebuild]_vars

\* C16: at every point during or after a build into a directory, a run
\* stopped by an I/O error included, what Open loads from the directory is
\* the dataset of one build: the earlier one, or this run's.
C16_AtomicDataset ==
    Open(disk).state = "open" =>
        \/ Open(disk) = Open(OldDisk)
        \/ /\ pc \notin {"read", "sort", "panic"}
           /\ Open(disk) = Open(FromBuild(entries, vendors))

\* ------------------------------------------------------ filtered builds

\* cmd/update_data: parseFilter for -include-vendors, -include-ouis and
\* -vendor-regex (a regular expression that compiles, or none); the two
\* file flags are left empty
parseFilter(includeVendors, includeOUIs, vendorRegex) ==
    LET clean(o) == SelectSeq(ToLower(TrimSpace(o)), LAMBDA c : c \notin {":", "-", "."})
        vs == IF includeVendors = <<>> THEN {}
              ELSE {simplifyName(TrimSpace(v)) : v \in Range(SplitOn(includeVendors, ","))}
                   \ {<<>>}
        os == IF includeOUIs = <<>> THEN {}
              ELSE {SubSeq(clean(o), 1, 6) :
                      o \in {x \in Range(SplitOn(includeOUIs, ",")) : Len(clean(x)) >= 6}}
    IN  IF vs = {} /\ os = {} /\ vendorRegex = NoRegex THEN NoFilter
        ELSE [nil |-> FALSE, vendorSet |-> vs, vendorRegex |-> vendorRegex, ouiSet |-> os]

SonyIncCo == <<"S","o","n","y"," ","I","n","c"," ","C","o">>
SonySpaced == <<" ","S","o","n","y"," ">>
OUI001122 == <<"0","0","1","1","2","2">>
SonyRegex == "(?i)^(nokia|sony)"

\* what -include-vendors, Filter.VendorNames, -include-ouis and Filter.OUIs
\* are drawn from
VendorFlags == {<<>>, SonySpaced, SonyIncCo}
VendorLists == {<<>>, <<SonySpaced>>, <<SonyIncCo>>}
OUIFlags == {<<>>, <<"0","C",":","B","4",":","A","4">>}
OUILists == {<<>>, <<<<"0","C",":","B","4",":","A","4">>>>}

FlagFilters ==
    {parseFilter(v, o, rx) : v \in VendorFlags, o \in OUIFlags, rx \in {NoRegex, SonyRegex}}

FilterStructs ==
    {NoFilter} \cup
    {[nil |-> FALSE, VendorNames |-> v, VendorRegex |-> rx, OUIs |-> o] :
        v \in VendorLists, o \in OUILists, rx \in {NoRegex, SonyRegex}}

FilterRows ==
    {Row(<<MAL, <<"0","C","B","4","A","4">>, SonyCorp>>),
     Row(<<MAL, OUI001122, SonyCorp>>),
     Row(<<MAL, OUI001122, SonyIncCo>>)}

InitFilter ==
    /\ mode \in {"cmd", "lib"}
    /\ flags = NoFlags
    /\ header = "read"
    /\ registry \in BoundedSeq(FilterRows, MaxRows)
    /\ flt \in (IF mode = "cmd" THEN FlagFilters ELSE FilterStructs)
    /\ pc = "read"
    /\ pos = 0
    /\ ouiMap = <<>>
    /\ vendorMap = <<>>
    /\ vendors = <<>>
    /\ entries = <<>>
    /\ id = 0
    /\ disk = NoDisk
    /\ cache = NoDisk
    /\ fixture = NoFixture
    /\ db = Unopened
    /\ last = NoCall
    /\ calls = <<>>
    /\ def = NoDefault

SpecFilter == InitFilter /\ [][Next]_vars

\* the filter's three parts as the running builder holds them
vendorSet == IF flt.nil THEN {} ELSE IF mode = "cmd" THEN flt.vendorSet ELSE LibVendorSet(flt)
ouiSet == IF flt.nil THEN {} ELSE IF mode = "cmd" THEN flt.ouiSet ELSE LibOUISet(flt)
vendorRegex ==
    IF flt.nil THEN NoRegex ELSE IF mode = "cmd" THEN flt.vendorRegex ELSE flt.VendorRegex

\* the OUI and the name the running builder stores for row i
Stored(i) ==
    IF mode = "cmd" THEN RowCmd(registry[i].rec, flt) ELSE RowLib(registry[i].rec, flt)

\* row i passes the three tests, each on the stored OUI or the stored name
Retained(i) ==
    /\ ouiSet = {} \/ Stored(i).o \in ouiSet
    /\ vendorSet = {} \/ Stored(i).v \in vendorSet
    /\ vendorRegex = NoRegex \/ MatchString(vendorRegex, Stored(i).v)

\* C17: with a filter present, an OUI is in the entries iff some row read
\* for it is in the OUI set (or that is empty), has its stored name in the
\* vendor set (or that is empty) and matches the regex (or there is none).
C17_FilterConjunction ==
    ~flt.nil =>
        \A i \in 1..pos :
            (\E e \in Range(entries) : e.OUI = Stored(i).o)
            <=> (\E j \in 1..pos : Stored(j).o = Stored(i).o /\ Retained(j))

\* --------------------------------------------------------- empty filters

\* the builder's tables before any row
NoRows == [ouiMap |-> <<>>, vendorMap |-> <<>>, vendors |-> <<>>, entries |-> <<>>, id |-> 0]

\* the read loop of newTemplateData (m = "cmd") or buildFromCSV (m = "lib")
\* over rows that all parse, with filter f: its tables at io.EOF
RECURSIVE newTemplateData(_, _, _)
newTemplateData(m, rows, f) ==
    IF rows = <<>> THEN NoRows
    ELSE LET st  == newTemplateData(m, SubSeq(rows, 1, Len(rows) - 1), f)
             rec == rows[Len(rows)].rec
             r   == IF m = "cmd" THEN RowCmd(rec, f) ELSE RowLib(rec, f)
             a   == AssignVendor(st.vendors, st.vendorMap, st.id, r.v)
         IN  IF r.skip \/ IsDuplicate(st.ouiMap, r.o) THEN st
             ELSE [ouiMap    |-> st.ouiMap @@ (r.o :> r.v),
                   vendorMap |-> a.vendorMap,
                   vendors   |-> a.vendors,
                   entries   |-> Append(st.entries,
                                  [OUI |-> r.o, VendorID |-> a.vendorMap[r.v], Vendor |-> r.v]),
                   id        |-> a.id]

\* flags and Filter fields that leave the vendor set and the OUI set empty
EmptyVendorFlags == {<<>>, <<" ", ",", " ">>}
EmptyOUIFlags == {<<>>, <<"0","c",":","b","4">>}
EmptyVendorLists == {<<>>, <<<<" ">>>>}
EmptyOUILists == {<<>>, <<<<"0","c",":","b","4">>>>}

EmptyFlagFilters ==
    {parseFilter(v, o, NoRegex) : v \in EmptyVendorFlags, o \in EmptyOUIFlags}

EmptyFilterStructs ==
    {[nil |-> FALSE, VendorNames |-> v, VendorRegex |-> NoRegex, OUIs |-> o] :
        v \in EmptyVendorLists, o \in EmptyOUILists}

\* the registry rows that parse and whose OUI is hexadecimal
HexRows == {r \in RegistryRows : ~r.err /\ ParseInt16(r.rec[2]).ok}

InitEmptyFilter ==
    /\ mode \in {"cmd", "lib"}
    /\ flags = NoFlags
    /\ header = "read"
    /\ registry \in BoundedSeq(HexRows, MaxRows)
    /\ flt \in (IF mode = "cmd" THEN EmptyFlagFilters ELSE EmptyFilterStructs)
    /\ pc = "read"
    /\ pos = 0
    /\ ouiMap = <<>>
    /\ vendorMap = <<>>
    /\ vendors = <<>>
    /\ entries = <<>>
    /\ id = 0
    /\ disk = NoDisk
    /\ cache = NoDisk
    /\ fixture = NoFixture
    /\ db = Unopened
    /\ last = NoCall
    /\ calls = <<>>
    /\ def = NoDefault

SpecEmptyFilter == InitEmptyFilter /\ [][Next]_vars

\* what the same builder makes of the registry with no filter
Unfiltered == newTemplateData(mode, registry, NoFilter)

\* C18: a build whose filter has an empty vendor set, no regex and an empty
\* OUI set keeps the rows, numbers the vendors and writes the entries and
\* vendors files as the build with no filter does (the entries in one of the
\* orders its sort can give).
C18_EmptyFilterIsNoFilter ==
    LET nil == Unfiltered
    IN  /\ pc = "sort" => entries = nil.entries /\ vendors = nil.vendors
        /\ pc \in {"entries", "vendors", "index", "done"} =>
              entries \in SortedOrders(nil.entries) /\ vendors = nil.vendors
        /\ disk.entries.there =>
              \E es \in SortedOrders(nil.entries) : disk.entries.bytes = EntriesFile(es)
        /\ disk.vendors.there => disk.vendors.bytes = VendorsFile(nil.vendors)

\* a library build under a Filter that is there but empty has written two
\* entries or more
C18_Witness ==
    /\ mode = "lib" /\ ~flt.nil /\ flt.OUIs # <<>> /\ flt.VendorNames # <<>>
    /\ pc = "done" /\ Len(entries) >= 2
    /\ disk.entries.there /\ disk.vendors.there

\* ------------------------------------------------ entries files as found

MaxEntryRows == 2

\* rows an entries file may hold: ids that are decimal, ids that are not, an
\* empty id, and a row of one column
EntryRows ==
    {abcdef \o <<",", "1">>,
     abcdef \o <<",", "x">>,
     abcd12 \o <<",", "2">>,
     abcd12 \o <<",", "-">>,
     abcd12 \o <<",">>,
     abcd12}

EntryFiles ==
    {Concat([i \in DOMAIN rows |-> rows[i] \o <<LF>>]) : rows \in BoundedSeq(EntryRows, MaxEntryRows)}

InitEntries ==
    /\ mode = "files"
    /\ flags = NoFlags
    /\ header = "read"
    /\ registry = <<>>
    /\ flt = NoFilter
    /\ pc = "done"
    /\ pos = 0
    /\ ouiMap = <<>>
    /\ vendorMap = <<>>
    /\ vendors = <<>>
    /\ entries = <<>>
    /\ id = 0
    /\ fixture = ReadmeDataset
    /\ \E b \in EntryFiles, d \in DatasetDisks(ReadmeDataset) :
          disk = [d EXCEPT !.entries = File(b)]
    /\ cache = NoDisk
    /\ db = Unopened
    /\ last = NoCall
    /\ calls = <<>>
    /\ def = NoDefault

SpecEntries == InitEntries /\ [][NextOpen]_vars

\* the rows of the entries file on disk, each split at its commas
RowsOnDisk ==
    LET ls == Lines(disk.entries.bytes)
    IN  [i \in DOMAIN ls |-> SplitOn(ls[i], ",")]

\* s is a decimal integer: digits, after an optional minus sign
IsDecimal(s) ==
    LET body == IF s # <<>> /\ Head(s) = "-" THEN Tail(s) ELSE s
    IN  body # <<>> /\ \A i \in DOMAIN body : body[i] \in Range(Digits)

\* the rows Open is to keep: two columns or more, the second a decimal integer
NumericRows == {i \in DOMAIN RowsOnDisk : Len(RowsOnDisk[i]) >= 2 /\ IsDecimal(RowsOnDisk[i][2])}

\* C21: whatever rows with a non-decimal id or with fewer than 2 columns the
\* entries file holds, Open succeeds, db.entries holds exactly the OUIs of the
\* rows with a decimal id, and Lookup of an OUI that only skipped rows name
\* returns ("", false).
C21_NonNumericTolerated ==
    db.state # "unopened" =>
        /\ db.state = "open"
        /\ DOMAIN db.entries = {RowsOnDisk[i][1] : i \in NumericRows}
        /\ (last.called /\ KeyOf(last.q) \notin {RowsOnDisk[i][1] : i \in NumericRows})
              => last.res = NotFound

\* --------------------------------------------------- the filter's OUI set

MaxOUIs == 2

\* OUI strings as a user writes them: the separators, a short one, a long one
OUIStrings ==
    {<<"0","C","-","B","4","-","A","4">>,
     <<"0","c",":","b","4",":","a","4">>,
     <<"0","c","b","4",".","a","4">>,
     <<"0","c"," ","b","4"," ","a","4">>,
     <<"0","c","b","4">>,
     <<"0","0","1","1","2","2","f","f">>}

\* strings.Join(items, ",")
RECURSIVE Join(_)
Join(items) ==
    IF items = <<>> THEN <<>>
    ELSE IF Len(items) = 1 THEN items[1]
    ELSE items[1] \o <<",">> \o Join(Tail(items))

\* main: flt, err := parseFilter(*incV, *incVFile, *incO, *incOFile, *vRegex)
main_parseFilter ==
    /\ mode = "cmd" /\ pc = "flags"
    /\ flt' = parseFilter(flags.includeVendors, flags.includeOUIs, flags.vendorRegex)
    /\ pc' = "read"
    /\ UNCHANGED <<mode, flags, header, registry, fixture, cache, def, locals, disk, db,
                   last, calls>>

InitFlags ==
    /\ mode \in {"cmd", "lib"}
    /\ \E os \in BoundedSeq(OUIStrings, MaxOUIs) :
          IF mode = "cmd"
          THEN /\ flags = [NoFlags EXCEPT !.includeOUIs = Join(os)]
               /\ flt = NoFilter
               /\ pc = "flags"
          ELSE /\ flags = NoFlags
               /\ flt = [nil |-> FALSE, VendorNames |-> <<>>, VendorRegex |-> NoRegex,
                         OUIs |-> os]
               /\ pc = "read"
    /\ header = "read"
    /\ registry \in BoundedSeq({Row(<<MAL, <<"0","C","B","4","A","4">>, SonyCorp>>)}, 1)
    /\ pos = 0
    /\ ouiMap = <<>>
    /\ vendorMap = <<>>
    /\ vendors = <<>>
    /\ entries = <<>>
    /\ id = 0
    /\ disk = NoDisk
    /\ cache = NoDisk
    /\ fixture = NoFixture
    /\ db = Unopened
    /\ last = NoCall
    /\ calls = <<>>
    /\ def = NoDefault

NextFlags ==
    \/ main_parseFilter
    \/ Next

SpecFlags == InitFlags /\ [][NextFlags]_vars

\* the OUI strings the filter was given
GivenOUIs ==
    IF mode = "cmd"
    THEN (IF flags.includeOUIs = <<>> THEN {} ELSE Range(SplitOn(flags.includeOUIs, ",")))
    ELSE Range(flt.OUIs)

\* s without ':', '-', '.' and spaces, in lower case
Stripped(s) == ToLower(SelectSeq(s, LAMBDA c : c \notin {":", "-", ".", " "}))

\* C22: the OUI set holds, for every OUI string given that has 6 characters
\* or more once ':', '-', '.' and spaces are removed, the first 6 of them in
\* lower case, and nothing else.
C22_OUISetNormalized ==
    pc # "flags" =>
        ouiSet = {SubSeq(Stripped(s), 1, 6) : s \in {x \in GivenOUIs : Len(Stripped(x)) >= 6}}

\* ------------------------------------------------- names with suffixes

MaxSuffixes == 2

Foo == <<"F","o","o">>

\* one suffix of each family, and one with a comma and a period
SuffixTokens ==
    {<<" ","C","o">>, <<" ","I","n","c">>, <<" ","G","m","b","H">>,
     <<",", " ","L","t","d",".">>}

\* "Foo" followed by up to MaxSuffixes suffixes
SuffixedNames == {Foo \o Concat(t) : t \in BoundedSeq(SuffixTokens, MaxSuffixes)}

InitNames ==
    /\ mode \in {"cmd", "lib"}
    /\ flags = NoFlags
    /\ header = "read"
    /\ \E n \in SuffixedNames :
          registry = <<Row(<<MAL, <<"0","0","0","0","0","a">>, n>>)>>
    /\ flt = NoFilter
    /\ pc = "read"
    /\ pos = 0
    /\ ouiMap = <<>>
    /\ vendorMap = <<>>
    /\ vendors = <<>>
    /\ entries = <<>>
    /\ id = 0
    /\ disk = NoDisk
    /\ cache = NoDisk
    /\ fixture = NoFixture
    /\ db = Unopened
    /\ last = NoCall
    /\ calls = <<>>
    /\ def = NoDefault

SpecNames == InitNames /\ [][Next]_vars

\* the registry's name as the builder hands it to simplifyName
RawName == StripQuotes(TrimSpace(registry[1].rec[3]))

\* s ends in a suffix of the family
EndsIn(words, s) == \E i \in 1..Len(s) : SuffixMatch(words, SubSeq(s, i, Len(s)))

\* t is nothing, or one suffix of some family
OneSuffix(t) ==
    t = <<>> \/ \E words \in {llcRegex, coRegex, gmbhRegex} : SuffixMatch(words, t)

\* what was cut from the end of raw to give kept
Removed(raw, kept) == SubSeq(raw, Len(kept) + 1, Len(raw))

\* the name was stored
NameStored == pos = 1 /\ Len(vendors) = 1

\* raw = kept \o g \o c \o l: l is the LLC-family suffix raw ends in, c the
\* Co-family suffix the rest ends in, g the GmbH suffix the rest of that ends
\* in, each empty exactly when there is none
OnePerFamily(raw, kept) ==
    \E a, b \in Len(kept)..Len(raw) :
        /\ a <= b
        /\ LET g == SubSeq(raw, Len(kept) + 1, a)
               c == SubSeq(raw, a + 1, b)
               l == SubSeq(raw, b + 1, Len(raw))
           IN  /\ (l = <<>>) <=> ~EndsIn(llcRegex, raw)
               /\ l # <<>> => SuffixMatch(llcRegex, l)
               /\ (c = <<>>) <=> ~EndsIn(coRegex, SubSeq(raw, 1, b))
               /\ c # <<>> => SuffixMatch(coRegex, c)
               /\ (g = <<>>) <=> ~EndsIn(gmbhRegex, SubSeq(raw, 1, a))
               /\ g # <<>> => SuffixMatch(gmbhRegex, g)

\* C23 as stated: the stored name is the raw name without at most one
\* trailing suffix, of one family; "Foo Co Inc" keeps "Foo Co" and
\* "Foo Inc Co" keeps "Foo Inc".
C23_OneSuffixPerCall ==
    NameStored =>
        /\ vendors[1] \o Removed(RawName, vendors[1]) = RawName
        /\ OneSuffix(Removed(RawName, vendors[1]))

\* C23, amended: the three families are applied in the order LLC, Co, GmbH,
\* each to what the one before left, and each removes the one suffix of its
\* own that it finds at the end: up to three suffixes go, one per family.
\* "Foo Co Inc" becomes "Foo", "Foo Inc Co" becomes "Foo Inc".
C23_OneSuffixPerFamily ==
    NameStored =>
        /\ vendors[1] \o Removed(RawName, vendors[1]) = RawName
        /\ OnePerFamily(RawName, vendors[1])
        /\ RawName = Foo \o <<" ","C","o"," ","I","n","c">> => vendors[1] = Foo
        /\ RawName = Foo \o <<" ","I","n","c"," ","C","o">>
              => vendors[1] = Foo \o <<" ","I","n","c">>

\* "Foo Co Inc" was stored as "Foo"
C23_Witness ==
    /\ NameStored
    /\ RawName = Foo \o <<" ","C","o"," ","I","n","c">>
    /\ vendors[1] = Foo
    /\ pc = "done"

\* ------------------------------------- a dataset that arrives too late

\* someone puts a complete dataset into the directory the default DB reads
DatasetAppears ==
    /\ Open(disk) = OpenError
    /\ disk' \in DatasetDisks(ReadmeDataset)
    /\ UNCHANGED <<input, def, pc, locals, db, last, calls>>

NextLate ==
    \/ NextDefault
    \/ DatasetAppears

SpecLate == InitDefault /\ [][NextLate]_vars

\* C24: once the Open made by defaultDB has failed, Open is not run again and
\* every package-level Lookup that returns gives ("", false), also when a
\* dataset has been put in place since.
C24_FailurePermanent ==
    /\ def.opens <= 1
    /\ (def.done /\ def.DB = NilDB) =>
          /\ def.Err # Nil
          /\ \A c \in DOMAIN calls : calls[c].pc = "done" => calls[c].res = NotFound

\* Open failed, the dataset is there now, and two calls for an OUI it holds
\* have returned
C24_Witness ==
    /\ def.done /\ def.DB = NilDB /\ def.opens = 1
    /\ Open(disk).state = "open"
    /\ \A c \in DOMAIN calls :
          calls[c].pc = "done" /\ calls[c].q = abcdef /\ calls[c].res = NotFound

\* ------------------------------------------------ the two builders

\* the *Filter that says what the flags say: the items of the two lists and
\* the regex, nil when there are none
FilterStruct(f) ==
    IF f = NoFlags THEN NoFilter
    ELSE [nil |-> FALSE,
          VendorNames |-> IF f.includeVendors = <<>> THEN <<>>
                          ELSE SplitOn(f.includeVendors, ","),
          VendorRegex |-> f.vendorRegex,
          OUIs |-> IF f.includeOUIs = <<>> THEN <<>> ELSE SplitOn(f.includeOUIs, ",")]

\* the filters both builders are given, as flags
AgreeFlags ==
    {[includeVendors |-> v, includeOUIs |-> o, vendorRegex |-> NoRegex] :
        v \in {<<>>, SonySpaced}, o \in {<<>>, <<"0","C",":","B","4",":","A","4">>}}

FooCommaInc == <<"F","o","o"," ",","," ","I","n","c">>

AgreeRows == FilterRows \cup {Row(<<MAL, <<"0","0","0","0","0","a">>, FooCommaInc>>)}

InitAgree ==
    /\ mode \in {"cmd", "lib"}
    /\ flags \in AgreeFlags
    /\ header = "read"
    /\ registry \in BoundedSeq(AgreeRows, MaxRows)
    /\ flt = IF mode = "cmd" THEN NoFilter ELSE FilterStruct(flags)
    /\ pc = IF mode = "cmd" THEN "flags" ELSE "read"
    /\ pos = 0
    /\ ouiMap = <<>>
    /\ vendorMap = <<>>
    /\ vendors = <<>>
    /\ entries = <<>>
    /\ id = 0
    /\ disk = NoDisk
    /\ cache = NoDisk
    /\ fixture = NoFixture
    /\ db = Unopened
    /\ last = NoCall
    /\ calls = <<>>
    /\ def = NoDefault

SpecAgree == InitAgree /\ [][NextFlags]_vars

\* what the other builder's read loop makes of the same registry and filter
OtherBuilder ==
    IF mode = "cmd"
    THEN newTemplateData("lib", registry, FilterStruct(flags))
    ELSE newTemplateData("cmd", registry,
            parseFilter(flags.includeVendors, flags.includeOUIs, flags.vendorRegex))

\* C25: on a registry whose rows all have 3 columns, and under the same
\* filter, each builder ends its run when the other does, keeps the rows the
\* other keeps, and has the other's entries (OUI, VendorID, in an order the
\* sort can give) and the other's vendor names.
C25_BuildersAgree ==
    LET other == OtherBuilder
    IN  /\ pc # "panic"
        /\ pc = "sort" => entries = other.entries /\ vendors = other.vendors
        /\ pc \in {"entries", "vendors", "index", "done"} =>
              entries \in SortedOrders(other.entries) /\ vendors = other.vendors

====
